---- MODULE Spec2Model ----
(***************************************************************************)
(* Model of app/services/auth.server.ts: the scrypt based password hasher  *)
(* (hash / compare), the form strategy (login / signup), the Google        *)
(* strategy (upsert by email) and sendVerificationCode (delete + create +  *)
(* mail inside one prisma.$transaction).                                   *)
(*                                                                         *)
(* Strings that the code takes apart (stored hashes) are sequences of      *)
(* one-character strings; passwords, emails and names are opaque strings.  *)
(***************************************************************************)
EXTENDS Integers, Sequences, FiniteSets, TLC

\* ------------------------------------------------------------------ bounds

\* How many different salts randomBytes can draw in the model.
NumSalts == 2
\* How many sendVerificationCode invocations one behaviour of Spec holds; the
\* specifications of two calls to one account (SpecTwo, SpecSeq) hold one more.
MaxIssues == 1
\* How many characters a tampering step cuts off a stored hash at most.
MaxCut == 2

\* --------------------------------------------------------------- constants

keyLength == 32
saltLength == 16

NULL == "NULL"

Emails == {"a@x.com", "b@x.com"}
PasswordList == <<"secret123", "wrong">>
Passwords == {PasswordList[i] : i \in 1..Len(PasswordList)}

\* ------------------------------------------------------------ hex encoding

HexDigits == <<"0", "1", "2", "3", "4", "5", "6", "7",
               "8", "9", "a", "b", "c", "d", "e", "f">>

IsHexChar(c) == \E i \in 1..16 : HexDigits[i] = c

HexVal(c) == (CHOOSE i \in 1..16 : HexDigits[i] = c) - 1

\* Hex without the leading zero of a byte below 16 (Number.toString(16) per
\* byte, unpadded).
toHexUnpadded(bytes) ==
  LET digits(b) == IF b < 16 THEN <<HexDigits[b + 1]>>
                   ELSE <<HexDigits[(b \div 16) + 1], HexDigits[(b % 16) + 1]>>
      F[k \in 0..Len(bytes)] == IF k = 0 THEN <<>> ELSE F[k - 1] \o digits(bytes[k])
  IN  F[Len(bytes)]

\* Buffer.toString("hex"): two lower-case hex characters per byte.
toHex(bytes) ==
  [i \in 1..(2 * Len(bytes)) |->
     IF i % 2 = 1 THEN HexDigits[(bytes[(i + 1) \div 2] \div 16) + 1]
                  ELSE HexDigits[(bytes[i \div 2] % 16) + 1]]

\* Buffer.from(str, "hex"): decodes pairs of hex characters and stops at the
\* first pair that is not hex; a trailing single character is dropped.
fromHex(str) ==
  LET valid(k) == IsHexChar(str[2 * k - 1]) /\ IsHexChar(str[2 * k])
      n == Cardinality({k \in 1..(Len(str) \div 2) : \A j \in 1..k : valid(j)})
  IN  [k \in 1..n |-> HexVal(str[2 * k - 1]) * 16 + HexVal(str[2 * k])]

\* String.prototype.split("."): every part between separators, in order.
split(str) ==
  LET seps == {i \in 1..Len(str) : str[i] = "."}
      \* the k-th separator; 0 before the first part, Len + 1 after the last
      sep(k) == IF k = 0 THEN 0
                ELSE IF k > Cardinality(seps) THEN Len(str) + 1
                ELSE CHOOSE i \in seps : Cardinality({j \in seps : j < i}) = k - 1
  IN  [k \in 1..(Cardinality(seps) + 1) |-> SubSeq(str, sep(k - 1) + 1, sep(k) - 1)]

\* ------------------------------------------------------------------ crypto

\* randomBytes(16): the salts the model can draw.
SaltBytes == {[i \in 1..saltLength |-> (17 * k + i) % 256] : k \in 1..NumSalts}

PwIndex(p) == IF p \in Passwords
              THEN CHOOSE i \in 1..Len(PasswordList) : PasswordList[i] = p
              ELSE 0

\* scrypt(password, salt, keylen): deterministic, keylen bytes, and free of
\* collisions on the bounded inputs (byte 1 carries the password, the bytes
\* after it the characters of the salt string).
scrypt(password, salt, keylen) ==
  [i \in 1..keylen |->
     IF i = 1 THEN PwIndex(password)
     ELSE IF i - 1 <= Len(salt)
          THEN ((IF IsHexChar(salt[i - 1]) THEN HexVal(salt[i - 1]) ELSE 16) * 13
                + PwIndex(password) + i) % 256
          ELSE (7 * i + PwIndex(password)) % 256]

\* crypto.timingSafeEqual: throws a RangeError on buffers of unequal length.
timingSafeEqual(a, b) ==
  IF Len(a) # Len(b) THEN "RangeError" ELSE IF a = b THEN "true" ELSE "false"

\* hash(password) with the salt bytes randomBytes drew.
hashWith(password, saltBytes) ==
  LET salt == toHex(saltBytes)
  IN  salt \o <<".">> \o toHex(scrypt(password, salt, keyLength))

\* compare with a missing key read as "" and the derived key cut to the
\* length of the stored one before the comparison.
compareCommonLength(password, hash) ==
  LET parts == split(hash)
      salt == parts[1]
      hashKeyBuff == IF Len(parts) < 2 THEN <<>> ELSE fromHex(parts[2])
      derivedKey == scrypt(password, salt, keyLength)
  IN  timingSafeEqual(hashKeyBuff,
                      SubSeq(derivedKey, 1, IF Len(hashKeyBuff) < keyLength
                                            THEN Len(hashKeyBuff) ELSE keyLength))

\* compare(password, hash): how the returned promise ends.
\*   "true" / "false"     resolved with that value
\*   "reject:TypeError"   Buffer.from(undefined, "hex") throws inside the
\*                        promise executor, so the promise rejects
\*   "uncaught:RangeError" timingSafeEqual throws inside the scrypt callback:
\*                        an uncaught exception, the promise never settles
compare(password, hash) ==
  LET parts == split(hash)
      salt == parts[1]
  IN  IF Len(parts) < 2 THEN "reject:TypeError"
      ELSE LET hashKeyBuff == fromHex(parts[2])
               r == timingSafeEqual(hashKeyBuff, scrypt(password, salt, keyLength))
           IN  IF r = "RangeError" THEN "uncaught:RangeError" ELSE r

\* hash and compare are pure: their values on the inputs the strategies can
\* pass (every password, every salt; every stored hash a signup can write and
\* the "" a null password becomes) are computed once.
hashTable == [p \in Passwords, sb \in SaltBytes |-> hashWith(p, sb)]

StoredHashes == {hashTable[p, sb] : p \in Passwords, sb \in SaltBytes} \cup {<<>>}

compareTable == [p \in Passwords, h \in StoredHashes |-> compare(p, h)]

\* -------------------------------------------------------------------- state

Names == {"Ann", "Bob"}
Codes == {"12345678"}
Salts == SaltBytes
Slots == 1..(MaxIssues + 1)

VARIABLES
  users,      \* the User table: a set of rows, email unique
  codes,      \* the VerificationCode table: the committed rows
  isolation,  \* the isolation level prisma.$transaction runs under
  issue,      \* the sendVerificationCode invocations, by slot
  last,       \* what the strategy call of this step handed to its caller
  hPw,        \* hasher harness: the password last hashed
  hStored,    \* hasher harness: the stored hash under test
  hFromHash,  \* hasher harness: hStored is what hash(hPw) returned
  hCmpPw,     \* hasher harness: the password last compared
  hResult     \* hasher harness: how that compare ended

sysVars == <<users, codes, isolation, issue, last>>
hashVars == <<hPw, hStored, hFromHash, hCmpPw, hResult>>
vars == <<users, codes, isolation, issue, last, hPw, hStored, hFromHash, hCmpPw, hResult>>

\* Column defaults of the User model (the Prisma schema).
\* A nullable column holds <<>> (null) or <<value>>.
SchemaDefaults == [password |-> <<>>, emailVerified |-> FALSE, isGoogleSignUp |-> FALSE]

IdleSlot == [pc |-> "idle", userId |-> 0, code |-> NULL, deleted |-> {}, mail |-> NULL]

\* The step was no strategy call: nothing is handed to a caller.
NoCall == [op |-> "none", email |-> NULL, out |-> [kind |-> "none"]]

Returned(u) == [kind |-> "return", user |-> u]
Thrown(name, message) == [kind |-> "throw", name |-> name, message |-> message]
\* The awaited promise never settles (the exception escaped a callback).
Hung(name) == [kind |-> "hang", name |-> name]

\* prisma.user.findFirst({where: {email}}): <<>> (null) or <<row>>.
findFirst(us, email) ==
  IF \E u \in us : u.email = email
  THEN <<CHOOSE u \in us : u.email = email>>
  ELSE <<>>

NewUserId(us) == Cardinality(us) + 1

\* ------------------------------------------------------------ form strategy

\* type === "login": findFirst by email, compare against user.password || "".
formLogin(us, email, password) ==
  LET found == findFirst(us, email)
  IN  IF found = <<>> THEN Thrown("Error", "Login failed")
      ELSE LET user == found[1]
               stored == IF user.password = <<>> THEN <<>> ELSE user.password[1]
               isPasswordCorrect == compareTable[password, stored]
           IN  CASE isPasswordCorrect = "true" -> Returned(user)
                 [] isPasswordCorrect = "false" -> Thrown("Error", "INVALID_PASSWORD")
                 [] isPasswordCorrect = "reject:TypeError" ->
                      Thrown("TypeError", "ERR_INVALID_ARG_TYPE")
                 [] OTHER -> Hung("RangeError")

\* create that hands back the row without inserting it.
userCreateNotStored(us, data) ==
  IF \E u \in us : u.email = data.email
  THEN [ok |-> FALSE, users |-> us, user |-> NULL]
  ELSE [ok |-> TRUE, users |-> us,
        user |-> [id |-> NewUserId(us),
                  email |-> data.email,
                  password |-> data.password,
                  emailVerified |-> data.emailVerified,
                  fullName |-> data.fullName,
                  isGoogleSignUp |-> data.isGoogleSignUp]]

\* prisma.user.create: inserts the row unless the unique email is taken.
userCreate(us, data) ==
  IF \E u \in us : u.email = data.email
  THEN [ok |-> FALSE, users |-> us, user |-> NULL]
  ELSE LET u == [id |-> NewUserId(us),
                 email |-> data.email,
                 password |-> data.password,
                 emailVerified |-> data.emailVerified,
                 fullName |-> data.fullName,
                 isGoogleSignUp |-> data.isGoogleSignUp]
       IN  [ok |-> TRUE, users |-> us \cup {u}, user |-> u]

\* upsert whose update writes the profile into the row it found.
userUpsertOverwrite(us, data) ==
  IF \E u \in us : u.email = data.email
  THEN LET old == findFirst(us, data.email)[1]
           new == [old EXCEPT !.emailVerified = data.emailVerified,
                              !.fullName = data.fullName,
                              !.isGoogleSignUp = data.isGoogleSignUp]
       IN  [ok |-> TRUE, users |-> (us \ {old}) \cup {new}, user |-> new]
  ELSE userCreate(us, data)

\* prisma.user.upsert({where: {email}, create: {...}, update: {}}).
userUpsert(us, data) ==
  IF \E u \in us : u.email = data.email
  THEN [ok |-> TRUE, users |-> us, user |-> findFirst(us, data.email)[1]]
  ELSE userCreate(us, data)

NumIssues == Cardinality({i \in Slots : issue[i].pc # "idle"})

\* sendVerificationCode(user) up to its first await: the code is drawn and
\* the transaction is opened.
StartIssue(user, code, limit) ==
  /\ NumIssues < limit
  /\ issue' = [issue EXCEPT ![NumIssues + 1] =
                 [pc |-> "deleteMany", userId |-> user.id, code |-> code,
                  deleted |-> {}, mail |-> NULL]]

Login(email, password) ==
  /\ last' = [op |-> "login", email |-> email, out |-> formLogin(users, email, password)]
  /\ UNCHANGED <<users, codes, isolation, issue>>
  /\ UNCHANGED hashVars

\* type === "signup": hash, create, sendVerificationCode (not awaited), return.
Signup(email, password, saltBytes, code, limit) ==
  LET hashedPassword == hashTable[password, saltBytes]
      r == userCreate(users, [email |-> email,
                              password |-> <<hashedPassword>>,
                              emailVerified |-> SchemaDefaults.emailVerified,
                              fullName |-> "test",
                              isGoogleSignUp |-> SchemaDefaults.isGoogleSignUp])
  IN  /\ IF r.ok
         THEN /\ StartIssue(r.user, code, limit)
              /\ last' = [op |-> "signup", email |-> email, out |-> Returned(r.user)]
         ELSE /\ issue' = issue
              /\ last' = [op |-> "signup", email |-> email,
                          out |-> Thrown("PrismaClientKnownRequestError", "P2002")]
      /\ users' = r.users
      /\ UNCHANGED <<codes, isolation>>
      /\ UNCHANGED hashVars

\* payloadSchema.safeParse fails.
ParseFail ==
  /\ last' = [op |-> "invalid", email |-> NULL, out |-> Thrown("Error", "Parsing Failed")]
  /\ UNCHANGED <<users, codes, isolation, issue>>
  /\ UNCHANGED hashVars

\* ---------------------------------------------------------- google strategy

Google(email, displayName) ==
  LET r == userUpsert(users, [email |-> email,
                              password |-> SchemaDefaults.password,
                              emailVerified |-> TRUE,
                              fullName |-> displayName,
                              isGoogleSignUp |-> TRUE])
  IN  /\ users' = r.users
      /\ last' = [op |-> "google", email |-> email, out |-> Returned(r.user)]
      /\ UNCHANGED <<codes, isolation, issue>>
      /\ UNCHANGED hashVars

\* ----------------------------------------------------- sendVerificationCode

IsolationLevels == {"ReadCommitted", "Serializable"}

Open(i) == issue[i].pc \in {"deleteMany", "create", "send"}
Settled(i) == issue[i].pc \in {"fulfilled", "rejected"}

\* The row slot i's transaction inserts.
Row(i) == [id |-> i, userId |-> issue[i].userId, code |-> issue[i].code]

\* COMMIT: the transaction's deletes and its insert reach the table.
txCommit(cs, i) == {r \in cs : r.id \notin issue[i].deleted} \cup {Row(i)}

\* ROLLBACK: the callback rejected, nothing the transaction did is kept.
txRollback(cs, i) == cs

\* A caller other than signup (a resend route) invokes the exported function.
Resend(user, code, limit) ==
  /\ StartIssue(user, code, limit)
  /\ last' = NoCall
  /\ UNCHANGED <<users, codes, isolation>>
  /\ UNCHANGED hashVars

\* trx.verificationCode.deleteMany({where: {userId}}): the committed rows of
\* the user are deleted inside the transaction. Under a serializable level
\* the writers run one at a time; otherwise the statement does not see what
\* another open transaction has written.
DeleteMany(i) ==
  /\ issue[i].pc = "deleteMany"
  /\ isolation = "Serializable" =>
       \A j \in Slots \ {i} : issue[j].pc \notin {"create", "send"}
  /\ issue' = [issue EXCEPT ![i].pc = "create",
                            ![i].deleted = {r.id : r \in {c \in codes : c.userId = issue[i].userId}}]
  /\ last' = NoCall
  /\ UNCHANGED <<users, codes, isolation>>
  /\ UNCHANGED hashVars

\* trx.verificationCode.create({data: {code, userId, expires}}).
Create(i) ==
  /\ issue[i].pc = "create"
  /\ issue' = [issue EXCEPT ![i].pc = "send"]
  /\ last' = NoCall
  /\ UNCHANGED <<users, codes, isolation>>
  /\ UNCHANGED hashVars

MailResolved == {"sent", "error"}

\* resend.emails.send resolves (delivered, or an {error} object the code does
\* not read): the callback returns and the transaction commits.
SendResolves(i, m) ==
  /\ issue[i].pc = "send"
  /\ codes' = txCommit(codes, i)
  /\ issue' = [issue EXCEPT ![i].pc = "fulfilled", ![i].mail = m, ![i].deleted = {}]
  /\ last' = NoCall
  /\ UNCHANGED <<users, isolation>>
  /\ UNCHANGED hashVars

\* resend.emails.send rejects: the callback rejects, the transaction rolls
\* back and sendVerificationCode rejects.
SendRejects(i) ==
  /\ issue[i].pc = "send"
  /\ codes' = txRollback(codes, i)
  /\ issue' = [issue EXCEPT ![i].pc = "rejected", ![i].mail = "throw", ![i].deleted = {}]
  /\ last' = NoCall
  /\ UNCHANGED <<users, isolation>>
  /\ UNCHANGED hashVars

\* ------------------------------------------------------------ hasher harness

HashCall(p, saltBytes) ==
  /\ hPw' = p
  /\ hStored' = hashWith(p, saltBytes)
  /\ hFromHash' = TRUE
  /\ hCmpPw' = NULL
  /\ hResult' = NULL
  /\ UNCHANGED sysVars

CompareCall(p) ==
  /\ hCmpPw' = p
  /\ hResult' = compare(p, hStored)
  /\ UNCHANGED <<hPw, hStored, hFromHash>>
  /\ UNCHANGED sysVars

Damaged(str) ==
  /\ hStored' = str
  /\ hFromHash' = FALSE
  /\ hCmpPw' = NULL
  /\ hResult' = NULL
  /\ UNCHANGED hPw
  /\ UNCHANGED sysVars

\* The stored hash loses its last n characters.
Truncate(n) ==
  /\ Len(hStored) >= n
  /\ Damaged(SubSeq(hStored, 1, Len(hStored) - n))

\* The stored hash loses its separators.
DropSeparator ==
  /\ \E i \in 1..Len(hStored) : hStored[i] = "."
  /\ Damaged(SelectSeq(hStored, LAMBDA c : c # "."))

\* The last character of the stored hash is replaced by another hex digit.
FlipLast ==
  /\ Len(hStored) >= 1
  /\ Damaged([hStored EXCEPT ![Len(hStored)] = IF @ = "0" THEN "1" ELSE "0"])

\* ----------------------------------------------------------- specifications

Init ==
  /\ users = {}
  /\ codes = {}
  /\ isolation \in IsolationLevels
  /\ issue = [i \in Slots |-> IdleSlot]
  /\ last = NoCall
  /\ hPw = NULL
  /\ hStored = <<>>
  /\ hFromHash = FALSE
  /\ hCmpPw = NULL
  /\ hResult = NULL

Strategy(limit) ==
  \/ \E e \in Emails, p \in Passwords : Login(e, p)
  \/ \E e \in Emails, p \in Passwords, sb \in Salts, c \in Codes : Signup(e, p, sb, c, limit)
  \/ ParseFail
  \/ \E e \in Emails, n \in Names : Google(e, n)

Transaction ==
  \/ \E i \in Slots : DeleteMany(i)
  \/ \E i \in Slots : Create(i)
  \/ \E i \in Slots, m \in MailResolved : SendResolves(i, m)
  \/ \E i \in Slots : SendRejects(i)

Next ==
  \/ Strategy(MaxIssues)
  \/ \E u \in users, c \in Codes : Resend(u, c, MaxIssues)
  \/ Transaction

Spec == Init /\ [][Next]_vars

\* The same program with room for one more sendVerificationCode call, so that
\* two calls for one account run at the same time.
NextTwo ==
  \/ Strategy(MaxIssues + 1)
  \/ \E u \in users, c \in Codes : Resend(u, c, MaxIssues + 1)
  \/ Transaction

SpecTwo == Init /\ [][NextTwo]_vars

\* The same with the sendVerificationCode calls one after the other: a call
\* starts only when no earlier call is still running.
NoOpenIssue == \A i \in Slots : ~Open(i)

NextSeq ==
  \/ NoOpenIssue /\ Strategy(MaxIssues + 1)
  \/ NoOpenIssue /\ \E u \in users, c \in Codes : Resend(u, c, MaxIssues + 1)
  \/ Transaction

SpecSeq == Init /\ [][NextSeq]_vars

\* hash and compare alone, on stored hashes as hash returns them and damaged.
NextHash ==
  \/ \E p \in Passwords, sb \in Salts : HashCall(p, sb)
  \/ \E p \in Passwords : CompareCall(p)
  \/ \E n \in 1..MaxCut : Truncate(n)
  \/ DropSeparator
  \/ FlipLast

SpecHash == Init /\ [][NextHash]_vars

\* ------------------------------------------------------------------- claims

CodesOf(uid) == {r \in codes : r.userId = uid}
CallsFor(uid) == {i \in Slots : issue[i].pc # "idle" /\ issue[i].userId = uid}
EmailTaken(us, e) == \E u \in us : u.email = e

\* C1: once every sendVerificationCode call for an account has finished,
\* whatever the interleaving of their steps was, the VerificationCode table
\* holds at most one code for that account.
C1_OneCodeAfterConcurrentIssues ==
  \A u \in users :
    (\A i \in CallsFor(u.id) : Settled(i)) => Cardinality(CodesOf(u.id)) <= 1

\* C2: (calls one after the other) when the send of the account's latest call
\* failed, the code that call inserted is in the table, and it is the only code
\* of the account: the earlier ones stay deleted.
C2_MailFailureKeepsCode ==
  \A i \in Slots :
    ( /\ Settled(i)
      /\ issue[i].mail \in {"error", "throw"}
      /\ \A j \in CallsFor(issue[i].userId) : j <= i )
    => CodesOf(issue[i].userId) = {Row(i)}

\* C3: a login with an email no account has and a login with an existing
\* email and a wrong password throw the same error, name and message.
C3_LoginErrorsIndistinguishable ==
  \A u \in users, e \in Emails, p \in Passwords, q \in Passwords :
    LET wrong == formLogin(users, u.email, p)
        absent == formLogin(users, e, q)
    IN  (~EmailTaken(users, e) /\ wrong.kind # "return")
        => /\ wrong.kind = "throw"
           /\ absent.kind = "throw"
           /\ wrong.name = absent.name
           /\ wrong.message = absent.message

\* C4: a signup with an unused email returns the account it created, which is
\* then a row of the User table, and no step (a failing issuance included)
\* ever removes or changes a row of the User table.
C4_SignupStep ==
  /\ \A u \in users : u \in users'
  /\ (last'.op = "signup" /\ ~EmailTaken(users, last'.email))
       => /\ last'.out.kind = "return"
          /\ last'.out.user.email = last'.email
          /\ last'.out.user \in users' \ users

C4_SignupReturnsAccount == [][C4_SignupStep]_vars

\* An account a signup created is in the table after the issuance that
\* signup started (the account's only one) has failed.
C4_Witness ==
  \E u \in users, i \in Slots :
    /\ ~u.isGoogleSignUp
    /\ CallsFor(u.id) = {i}
    /\ issue[i].pc = "rejected"

\* C5: a signup with an email that an account already has throws a
\* ConflictError and leaves the User table as it was.
C5_DuplicateSignupStep ==
  (last'.op = "signup" /\ EmailTaken(users, last'.email))
  => /\ last'.out.kind = "throw"
     /\ last'.out.name = "ConflictError"
     /\ users' = users

C5_DuplicateSignupIsConflictError == [][C5_DuplicateSignupStep]_vars

\* C6: every Google verify call returns the one account that has the
\* profile's email; an account that existed is returned as it was and the
\* table is left as it was; no step changes or removes a row, so every call
\* for an email returns the same row, and no two rows share an email.
C6_GoogleStep ==
  /\ \A u \in users : u \in users'
  /\ \A u \in users', v \in users' : u.email = v.email => u = v
  /\ last'.op = "google"
       => /\ last'.out.kind = "return"
          /\ last'.out.user \in users'
          /\ last'.out.user.email = last'.email
          /\ EmailTaken(users, last'.email)
               => (users' = users /\ last'.out.user \in users)

C6_UpsertIdempotent == [][C6_GoogleStep]_vars

\* A Google verify call has returned an account that a signup created, with
\* its password hash and flags as the signup wrote them.
C6_Witness ==
  /\ last.op = "google"
  /\ last.out.user \in users
  /\ ~last.out.user.isGoogleSignUp
  /\ last.out.user.password # <<>>
  /\ Cardinality(users) = 2

\* A stored hash is malformed: no separator, or a key part that is not the
\* hex of keyLength bytes.
Malformed(h) ==
  LET parts == split(h)
  IN  Len(parts) < 2 \/ Len(parts[2]) # 2 * keyLength

\* C7: compare on a malformed stored hash resolves to false.
C7_MalformedResolvesFalse ==
  (hResult # NULL /\ Malformed(hStored)) => hResult = "false"

\* C8: no login returns an account the Google path created: with any
\* password such a login throws.
C8_GoogleAccountRejectsPasswordLogin ==
  /\ \A u \in users, p \in Passwords :
       u.isGoogleSignUp => formLogin(users, u.email, p).kind = "throw"
  /\ (last.op = "login" /\ last.out.kind = "return") => ~last.out.user.isGoogleSignUp
  /\ (last.op = "login" /\ \E u \in users : u.email = last.email /\ u.isGoogleSignUp)
       => last.out.kind = "throw"

\* A login against an account the Google path created has thrown.
C8_Witness ==
  /\ last.op = "login"
  /\ last.out.kind = "throw"
  /\ last.out.name = "TypeError"
  /\ \E u \in users : u.email = last.email /\ u.isGoogleSignUp /\ u.password = <<>>

\* C9: (calls one after the other) when every call for an account has
\* finished, the account's only code is the one its latest call issued.
C9_LatestCodeOnly ==
  \A i \in Slots :
    ( /\ Settled(i)
      /\ \A j \in CallsFor(issue[i].userId) : j <= i /\ Settled(j) )
    => CodesOf(issue[i].userId) = {Row(i)}

\* C10: compare(p, hash(q)) resolves to true when p = q and to false when
\* p # q, whatever salt hash drew.
C10_RoundTrip ==
  (hFromHash /\ hResult # NULL) => hResult = (IF hCmpPw = hPw THEN "true" ELSE "false")

\* compare(p, hash(p)) has resolved to true on a hash made with the last salt
\* of the model.
C10_Witness ==
  /\ hFromHash
  /\ hCmpPw = hPw
  /\ hResult = "true"
  /\ \E sb \in SaltBytes : sb[1] = (17 * NumSalts + 1) % 256 /\ hStored = hashWith(hPw, sb)

====
